---------------------------- MODULE Spec2Model ----------------------------
(***************************************************************************)
(* A model of link-scraper (src/server.js): the express server that parses *)
(* product pages, keeps submitted wish texts for ten minutes and analyses  *)
(* wish texts and product photos through inference providers.              *)
(*                                                                         *)
(* JavaScript values are tagged records.  A string is a record             *)
(*   [t |-> "string", s |-> <<characters>>, pad |-> n]                     *)
(* whose characters are one-character names: ASCII characters stand for    *)
(* themselves, a Cyrillic letter is written "c_<latin>" (capital           *)
(* "C_<latin>"), and the signs are "RUBLE", "EURO" and "TENGE".  pad is a  *)
(* run-length coded tail of n filler letters "a" (0 for every string but   *)
(* the long texts that probe the 2000 character limit).                    *)
(***************************************************************************)
EXTENDS Integers, Sequences, FiniteSets, TLC

VARIABLES
    now,            \* Date.now(), in clock units of five minutes
    wishTextStore,  \* the Map wishTextStore: id -> [text, expires]
    timers,         \* pending setTimeout callbacks: [id, due]
    env,            \* process.env: the set of API keys that are set
    supabase,       \* whether the storage client was created
    inflight,       \* suspended async handlers: request number -> frame
    browsers,       \* number of browsers launched and not yet closed
    nreq,           \* number of requests received so far
    last,           \* the last request that ended, and how it ended
    input,          \* the arguments of a resolution function under test
    output          \* what the function returned for them

vars ==
    <<now, wishTextStore, timers, env, supabase, inflight, browsers, nreq, last,
      input, output>>

----------------------------------------------------------------------------
(* Bounds of the model.                                                    *)

\* the clock stops here
MaxTime == 3
\* requests received in one behaviour
MaxRequests == 2
\* handlers suspended at the same time
MaxInflight == 2

----------------------------------------------------------------------------
(* Program constants.                                                      *)

\* WISH_TEXT_TTL = 10 * 60 * 1000 ms, in clock units of five minutes
WISH_TEXT_TTL == 2
\* text.length > 2000
MaxTextLength == 2000
\* num < 1e9
PriceLimit == 1000000000

----------------------------------------------------------------------------
(* JavaScript values.                                                      *)

Undefined == [t |-> "undefined"]
Null == [t |-> "null"]
NaN == [t |-> "nan"]
Infinity == [t |-> "inf"]
Num(n) == [t |-> "number", n |-> n]
Str(chars) == [t |-> "string", s |-> chars, pad |-> 0]
Padded(chars, k) == [t |-> "string", s |-> chars, pad |-> k]
Obj(fields) == [t |-> "object", f |-> fields]
Arr(items) == [t |-> "array", a |-> items]

\* const x = v, the rest of the block reading x
Bind(v, Rest(_)) == Rest(v)

\* the least number of a set that is not empty
Min(S) == CHOOSE a \in S : \A b \in S : a <= b

\* typeof v
TypeOf(v) ==
    CASE v.t \in {"number", "nan", "inf"} -> "number"
      [] v.t = "string" -> "string"
      [] v.t = "undefined" -> "undefined"
      [] OTHER -> "object"

\* the truthiness of v, as !v, v || w and v && w use it
Truthy(v) ==
    CASE v.t \in {"undefined", "null", "nan"} -> FALSE
      [] v.t = "number" -> v.n # 0
      [] v.t = "string" -> Len(v.s) + v.pad > 0
      [] OTHER -> TRUE

\* v || w
Or(v, w) == IF Truthy(v) THEN v ELSE w

\* v && w
And(v, w) == IF Truthy(v) THEN w ELSE v

\* v.length of a string
Length(v) == Len(v.s) + v.pad

\* v == null
IsNullish(v) == v.t \in {"undefined", "null"}

\* isNaN(v) of a value whose typeof is "number"
IsNaN(v) == v.t = "nan"

----------------------------------------------------------------------------
(* Characters and the string methods the program uses.                     *)

Digits == {"0", "1", "2", "3", "4", "5", "6", "7", "8", "9"}

\* \s
Whitespace == {" "}

UpperSeq ==
    <<"A", "B", "C", "D", "E", "F", "G", "H", "I", "J", "K", "L", "M", "N", "O",
      "P", "Q", "R", "S", "T", "U", "V", "W", "X", "Y", "Z", "C_kh", "C_zh", "C_r">>

LowerSeq ==
    <<"a", "b", "c", "d", "e", "f", "g", "h", "i", "j", "k", "l", "m", "n", "o",
      "p", "q", "r", "s", "t", "u", "v", "w", "x", "y", "z", "c_kh", "c_zh", "c_r">>

\* the ASCII letters: with the digits and "_", the characters \w matches
AsciiLetters == {UpperSeq[i] : i \in 1..26} \cup {LowerSeq[i] : i \in 1..26}

WordChars == AsciiLetters \cup Digits \cup {"_"}

\* one character of toLowerCase(), and the case folding of the i flag
LowerChar(c) ==
    IF c \in {UpperSeq[i] : i \in 1..Len(UpperSeq)}
    THEN LowerSeq[CHOOSE i \in 1..Len(UpperSeq) : UpperSeq[i] = c]
    ELSE c

\* s.toLowerCase() of a character sequence
ToLowerCase(s) == [i \in 1..Len(s) |-> LowerChar(s[i])]

DigitVal(c) ==
    CASE c = "0" -> 0 [] c = "1" -> 1 [] c = "2" -> 2 [] c = "3" -> 3 [] c = "4" -> 4
      [] c = "5" -> 5 [] c = "6" -> 6 [] c = "7" -> 7 [] c = "8" -> 8 [] c = "9" -> 9

\* pat occurs in s at position i
MatchAt(s, i, pat) ==
    /\ i >= 1
    /\ i + Len(pat) - 1 <= Len(s)
    /\ \A k \in 1..Len(pat) : s[i + k - 1] = pat[k]

\* pat occurs in s at position i, letter case ignored (the i flag)
MatchAtCI(s, i, pat) ==
    /\ i >= 1
    /\ i + Len(pat) - 1 <= Len(s)
    /\ \A k \in 1..Len(pat) : LowerChar(s[i + k - 1]) = LowerChar(pat[k])

\* s.includes(pat)
Includes(s, pat) == \E i \in 1..(Len(s) + 1) : MatchAt(s, i, pat)

\* /pat/i.test(s) for a pattern without metacharacters
TestCI(s, pat) == \E i \in 1..(Len(s) + 1) : MatchAtCI(s, i, pat)

\* the first position at or after i whose character is not in class (Len(s) + 1
\* when the run reaches the end)
RunEnd(s, i, class) ==
    CHOOSE j \in i..(Len(s) + 1) :
        /\ \A k \in i..(j - 1) : s[k] \in class
        /\ (j = Len(s) + 1 \/ s[j] \notin class)

\* the last position at or before i whose character is not in class (0 when
\* the run reaches the start)
RunStart(s, i, class) ==
    CHOOSE j \in 0..i :
        /\ \A k \in (j + 1)..i : s[k] \in class
        /\ (j = 0 \/ s[j] \notin class)

\* s with the characters at positions from..to removed
Remove(s, from, to) == SubSeq(s, 1, from - 1) \o SubSeq(s, to + 1, Len(s))

\* s.replace(/\s/g, "")
StripWhitespace(s) == SelectSeq(s, LAMBDA c : c \notin Whitespace)

\* s.replace(/\s+/g, " ")
CollapseWhitespace(s) ==
    Bind({i \in 1..Len(s) : s[i] \notin Whitespace \/ i = 1 \/ s[i - 1] \notin Whitespace},
         LAMBDA idx :
            [n \in 1..Cardinality(idx) |->
                Bind(CHOOSE i \in idx : Cardinality({j \in idx : j < i}) = n - 1,
                     LAMBDA i : IF s[i] \in Whitespace THEN " " ELSE s[i])])

\* v.trim() of a string value: the filler tail of a padded string is not
\* whitespace, so only the front of a padded string is trimmed
Trim(v) ==
    Bind(RunEnd(v.s, 1, Whitespace), LAMBDA a :
    Bind(IF v.pad > 0 THEN Len(v.s) ELSE RunStart(v.s, Len(v.s), Whitespace), LAMBDA b :
        Padded(IF a > b THEN <<>> ELSE SubSeq(v.s, a, b), v.pad)))

\* the value of a run of digits; every number of 1e9 or more is represented
\* by 1e9 (the model's integers are 32 bits wide)
RECURSIVE DigitsValue(_, _)
DigitsValue(ds, acc) ==
    IF ds = <<>> THEN acc
    ELSE IF acc >= PriceLimit \div 10 THEN PriceLimit
    ELSE DigitsValue(Tail(ds), acc * 10 + DigitVal(Head(ds)))

\* parseFloat(s) of a character sequence: leading whitespace, a sign, then
\* the digits up to the first character that is none; a fraction is cut off
\* (the inputs of the model hold whole numbers only)
ParseFloat(s) ==
    Bind(RunEnd(s, 1, Whitespace), LAMBDA a :
    Bind(IF a <= Len(s) /\ s[a] \in {"-", "+"} THEN a + 1 ELSE a, LAMBDA b :
    Bind(RunEnd(s, b, Digits), LAMBDA e :
        IF MatchAt(s, b, <<"I", "n", "f", "i", "n", "i", "t", "y">>) THEN Infinity
        ELSE IF e = b THEN NaN
        ELSE Bind(DigitsValue(SubSeq(s, b, e - 1), 0),
                  LAMBDA n : Num(IF s[a] = "-" THEN 0 - n ELSE n)))))

\* parseFloat(v) of any value: its argument is converted to a string first
ParseFloatValue(v) ==
    CASE v.t = "string" -> ParseFloat(v.s)
      [] v.t \in {"number", "inf"} -> v
      [] OTHER -> NaN

\* parseInt(s, 10) of a run of digits
ParseInt(s) == DigitsValue(s, 0)

----------------------------------------------------------------------------
(* Words of the program's regular expressions and tables.                  *)

\* "хочу", the intent word
W_hochu == <<"c_kh", "c_o", "c_ch", "c_u">>
\* "Желание", the placeholder name
W_zhelanie == <<"C_zh", "c_e", "c_l", "c_a", "c_n", "c_i", "c_e">>
\* "руб"
W_rub == <<"c_r", "c_u", "c_b">>
\* "рублей"
W_rublej == <<"c_r", "c_u", "c_b", "c_l", "c_e", "c_j">>
\* "долларо", which "долларов?" matches with or without its last letter
W_dollaro == <<"c_d", "c_o", "c_l", "c_l", "c_a", "c_r", "c_o">>
\* "долл"
W_doll == <<"c_d", "c_o", "c_l", "c_l">>
\* "бун"
W_bun == <<"c_b", "c_u", "c_n">>
\* "евр"
W_evr == <<"c_e", "c_v", "c_r">>
W_Br == <<"B", "r">>
W_BYN == <<"B", "Y", "N">>
W_RUB == <<"R", "U", "B">>
W_USD == <<"U", "S", "D">>
W_EUR == <<"E", "U", "R">>
W_KZT == <<"K", "Z", "T">>
W_NA == <<"N", "/", "A">>
\* the symbols of the closed set
S_Rouble == <<"RUBLE">>
S_Br == W_Br
S_Dollar == <<"$">>
S_Euro == <<"EURO">>
S_Tenge == <<"TENGE">>

----------------------------------------------------------------------------
(* analyzeWishTextFallback: the regex parse of a wish text.                *)

\* the alternatives of priceRe's currency group, in the regex's order: base
\* is matched with the i flag, opt is the optional last character
PriceReCurrencies ==
    << [base |-> W_rub, opt |-> <<".">>],
       [base |-> S_Rouble, opt |-> <<>>],
       [base |-> W_Br, opt |-> <<>>],
       [base |-> W_BYN, opt |-> <<>>],
       [base |-> S_Dollar, opt |-> <<>>],
       [base |-> W_USD, opt |-> <<>>],
       [base |-> S_Euro, opt |-> <<>>],
       [base |-> W_EUR, opt |-> <<>>],
       [base |-> W_dollaro, opt |-> <<"c_v">>],
       [base |-> W_rublej, opt |-> <<>>],
       [base |-> W_bun, opt |-> <<".">>] >>

\* the length of the currency group's match at position p of s, 0 when no
\* alternative matches there: the first alternative that matches wins
PriceReCurrencyLen(s, p) ==
    Bind({k \in 1..Len(PriceReCurrencies) : MatchAtCI(s, p, PriceReCurrencies[k].base)},
         LAMBDA hits :
            IF hits = {} THEN 0
            ELSE Bind(PriceReCurrencies[Min(hits)], LAMBDA alt :
                    Len(alt.base)
                    + (IF alt.opt # <<>> /\ MatchAtCI(s, p + Len(alt.base), alt.opt)
                       THEN 1 ELSE 0)))

\* the end of group 1 of priceRe started at the digit at i: the position
\* after the whole run of digits, whitespace and dots
PriceReNumEnd(s, i) == RunEnd(s, i, Digits \cup Whitespace \cup {"."})

\* the match of priceRe that starts at i
PriceReMatchAt(s, i) ==
    Bind(PriceReNumEnd(s, i), LAMBDA e :
        [found |-> TRUE, from |-> i, numEnd |-> e, to |-> e + PriceReCurrencyLen(s, e) - 1])

\* s.match(priceRe): [found, from, numEnd, to], the match being s[from..to],
\* group 1 s[from..numEnd - 1] and group 2 s[numEnd..to].  Group 1 is a digit
\* and then the whole run of digits, whitespace and dots after it (giving
\* characters back never lets the currency group match earlier); the match
\* starts at the leftmost digit whose run is followed by a currency
PriceReMatch(s) ==
    Bind({i \in 1..Len(s) : s[i] \in Digits /\ PriceReCurrencyLen(s, PriceReNumEnd(s, i)) > 0},
         LAMBDA starts :
            IF starts = {} THEN [found |-> FALSE] ELSE PriceReMatchAt(s, Min(starts)))

\* the currency the fallback derives from the matched token c = m[2].toLowerCase()
FallbackCurrency(c) ==
    IF Includes(c, W_rub) \/ c = S_Rouble THEN Str(S_Rouble)
    ELSE IF Includes(c, ToLowerCase(W_BYN)) \/ Includes(c, W_bun) THEN Str(S_Br)
    ELSE IF Includes(c, W_doll) \/ c = S_Dollar THEN Str(S_Dollar)
    ELSE IF Includes(c, ToLowerCase(W_EUR)) \/ Includes(c, W_evr) THEN Str(S_Euro)
    ELSE Null

\* the alternatives of sizeRe before \d{2}, in the regex's order; digits says
\* whether \s*\d+ follows the letters
SizeReWords ==
    << [w |-> <<"X", "S">>, digits |-> FALSE],
       [w |-> <<"S">>, digits |-> FALSE],
       [w |-> <<"M">>, digits |-> FALSE],
       [w |-> <<"L">>, digits |-> FALSE],
       [w |-> <<"X", "L">>, digits |-> FALSE],
       [w |-> <<"X", "X", "L">>, digits |-> FALSE],
       [w |-> <<"E", "U">>, digits |-> TRUE],
       [w |-> <<"U", "S">>, digits |-> TRUE] >>

\* \b between positions p - 1 and p of s
WordBoundary(s, p) ==
    LET before == p > 1 /\ s[p - 1] \in WordChars
        after == p <= Len(s) /\ s[p] \in WordChars
    IN before # after

\* the ends e at which alternative k of sizeRe, started at p, can stop with a
\* \b behind it (one end at most: the digits of EU/US must run to a boundary)
SizeReDigitsEnd(s, d) ==
    Bind(RunEnd(s, d, Digits), LAMBDA e : IF e > d /\ WordBoundary(s, e) THEN e - 1 ELSE 0)

SizeReWordEnd(s, p, k) ==
    Bind(SizeReWords[k], LAMBDA alt :
    Bind(p + Len(alt.w), LAMBDA q :
        IF ~MatchAtCI(s, p, alt.w) THEN 0
        ELSE IF ~alt.digits THEN (IF WordBoundary(s, q) THEN q - 1 ELSE 0)
        ELSE SizeReDigitsEnd(s, RunEnd(s, q, Whitespace))))

\* the end of sizeRe's match started at p, 0 when it does not match there
SizeReEndAt(s, p) ==
    Bind([k \in 1..Len(SizeReWords) |-> SizeReWordEnd(s, p, k)], LAMBDA end :
    Bind({k \in 1..Len(SizeReWords) : end[k] > 0}, LAMBDA hits :
        IF ~WordBoundary(s, p) THEN 0
        ELSE IF hits # {} THEN end[Min(hits)]
        ELSE IF /\ p + 1 <= Len(s)
                /\ s[p] \in Digits
                /\ s[p + 1] \in Digits
                /\ WordBoundary(s, p + 2)
             THEN p + 1
        ELSE 0))

\* s.match(sizeRe): the leftmost match, as [found, from, to]
SizeReMatch(s) ==
    Bind([p \in 1..Len(s) |-> SizeReEndAt(s, p)], LAMBDA end :
    Bind({p \in 1..Len(s) : end[p] > 0}, LAMBDA starts :
        IF starts = {} THEN [found |-> FALSE]
        ELSE [found |-> TRUE, from |-> Min(starts), to |-> end[Min(starts)]]))

\* the size the fallback accepts for the matched token sz
FallbackSize(sz) ==
    LET twoDigits == Len(sz) = 2 /\ sz[1] \in Digits /\ sz[2] \in Digits
        letters == \E k \in 1..6 : ToLowerCase(sz) = ToLowerCase(SizeReWords[k].w)
        d == RunEnd(sz, 3, Whitespace)
        euUs == /\ MatchAtCI(sz, 1, <<"E", "U">>) \/ MatchAtCI(sz, 1, <<"U", "S">>)
                /\ d <= Len(sz)
                /\ sz[d] \in Digits
    IN IF twoDigits /\ ParseInt(sz) >= 35 /\ ParseInt(sz) <= 52 THEN Str(sz)
       ELSE IF letters \/ euUs THEN Str(sz)
       ELSE Null

\* text.replace(/^хочу\s+/i, "")
StripIntent(v) ==
    Bind(Len(W_hochu) + 1, LAMBDA n :
        IF MatchAtCI(v.s, 1, W_hochu) /\ n <= Len(v.s) /\ v.s[n] \in Whitespace
        THEN Padded(SubSeq(v.s, RunEnd(v.s, n, Whitespace), Len(v.s)), v.pad)
        ELSE v)

\* analyzeWishTextFallback(text) of a string value
analyzeWishTextFallback(text) ==
    Bind(Or(Trim(StripIntent(text)), Str(W_zhelanie)), LAMBDA s0 :
    Bind(PriceReMatch(s0.s), LAMBDA m :
    Bind(IF m.found
         THEN ParseFloat(StripWhitespace(SubSeq(s0.s, m.from, m.numEnd - 1)))
         ELSE NaN, LAMBDA num :
    Bind(m.found /\ ~IsNaN(num) /\ num.n < PriceLimit, LAMBDA priced :
    Bind(IF priced
         THEN Trim(Padded(CollapseWhitespace(Remove(s0.s, m.from, m.to)), s0.pad))
         ELSE s0, LAMBDA s1 :
    Bind(SizeReMatch(s1.s), LAMBDA sm :
        [name |-> Or(s1, Str(W_zhelanie)),
         price |-> IF priced THEN num ELSE Null,
         currency |-> IF priced
                      THEN FallbackCurrency(ToLowerCase(SubSeq(s0.s, m.numEnd, m.to)))
                      ELSE Null,
         size |-> IF sm.found THEN FallbackSize(SubSeq(s1.s, sm.from, sm.to)) ELSE Null]))))))

----------------------------------------------------------------------------
(* Inference providers.  A provider's reply to one request is a record     *)
(*   [kind |-> k] or [kind |-> "json", parsed |-> p]                       *)
(* whose kind says how far the reply gets through the caller's steps:      *)
(*   "reject"    fetch() rejects (network failure, timeout)                *)
(*   "notok"     the response's status is not a success (res.ok is false)  *)
(*   "badbody"   res.json() rejects: the body is not JSON                  *)
(*   "nulldata"  the body is the JSON value null                           *)
(*   "nocontent" the message content is missing or empty                   *)
(*   "nonstring" the message content is an array of parts, not a string    *)
(*   "nospan"    the content holds no {...} span                           *)
(*   "badjson"   the {...} span is not valid JSON                          *)
(*   "json"      the {...} span parses to the object p, a record of the    *)
(*               values of its name, price, currency and size members      *)
(*               (Undefined for a member it lacks)                         *)
(***************************************************************************)

ReplyKinds ==
    {"reject", "notok", "badbody", "nulldata", "nocontent", "nonstring",
     "nospan", "badjson", "json"}

\* String(v).trim() is not empty
StringTrimTruthy(v) ==
    CASE v.t = "string" -> Truthy(Trim(v))
      [] v.t = "array" -> v.a # <<>>
      [] OTHER -> TRUE

\* curMap[cur] of analyzeWishText
curMap(cur) ==
    IF cur.t # "string" \/ cur.pad # 0 THEN Undefined
    ELSE CASE cur.s = W_BYN -> Str(S_Br)
           [] cur.s = W_Br -> Str(S_Br)
           [] cur.s = W_RUB -> Str(S_Rouble)
           [] cur.s = W_rub -> Str(S_Rouble)
           [] cur.s = W_USD -> Str(S_Dollar)
           [] cur.s = W_EUR -> Str(S_Euro)
           [] cur.s = W_KZT -> Str(S_Tenge)
           [] OTHER -> Undefined

\* the record analyzeWishText builds from the parsed object
WishTextRecord(parsed, text) ==
    [name |-> IF Truthy(parsed.name) /\ StringTrimTruthy(parsed.name)
              THEN parsed.name
              ELSE analyzeWishTextFallback(text).name,
     price |-> IF TypeOf(parsed.price) = "number" /\ ~IsNaN(parsed.price)
               THEN parsed.price ELSE Null,
     currency |-> Or(Or(curMap(parsed.currency),
                        IF TypeOf(parsed.currency) = "string" THEN parsed.currency ELSE Null),
                     Null),
     size |-> IF TypeOf(parsed.size) = "string" THEN parsed.size ELSE Null]

\* the API key analyzeWishText uses is set
WishTextHasKey(e) == "OPENROUTER_API_KEY" \in e \/ "GROQ_API_KEY" \in e

\* the provider analyzeWishText calls: isGroq
WishTextProvider(e) == IF "GROQ_API_KEY" \in e THEN "Groq" ELSE "OpenRouter"

\* analyzeWishText after fetch() has settled with reply: [threw |-> TRUE] when
\* the error leaves the function, else [threw |-> FALSE, value |-> record].
\* fetch(), res.json(), data.choices and t.match are outside the try block
WishTextAfterFetch(text, reply) ==
    CASE reply.kind \in {"reject", "badbody", "nulldata", "nonstring"} -> [threw |-> TRUE]
      [] reply.kind \in {"notok", "nocontent", "nospan", "badjson"} ->
            [threw |-> FALSE, value |-> analyzeWishTextFallback(text)]
      [] reply.kind = "json" ->
            [threw |-> FALSE, value |-> WishTextRecord(reply.parsed, text)]

\* analyzeWishText(text) in the environment e, the provider answering reply
analyzeWishText(e, text, reply) ==
    IF ~WishTextHasKey(e)
    THEN [threw |-> FALSE, value |-> analyzeWishTextFallback(text)]
    ELSE WishTextAfterFetch(text, reply)

----------------------------------------------------------------------------
(* analyzeImage: the cascade over the vision providers.                    *)

\* the providers in the order analyzeImage tries them
VisionProviders == <<"Groq", "OpenRouter", "Gemini">>

ProviderKey(p) ==
    CASE p = "Groq" -> "GROQ_API_KEY"
      [] p = "OpenRouter" -> "OPENROUTER_API_KEY"
      [] p = "Gemini" -> "GEMINI_API_KEY"

ApiKeys == {ProviderKey(VisionProviders[i]) : i \in 1..Len(VisionProviders)}

\* { name: "N/A", price: null, currency: null, size: null }
UnknownRecord == [name |-> Str(W_NA), price |-> Null, currency |-> Null, size |-> Null]

\* the record a provider block of analyzeImage returns for the parsed object
ImageRecord(p) ==
    [name |-> IF Truthy(p.name) /\ StringTrimTruthy(p.name)
              THEN p.name ELSE Str(W_NA),
     price |-> IF TypeOf(p.price) = "number" /\ ~IsNaN(p.price) THEN p.price ELSE Null,
     currency |-> IF TypeOf(p.currency) = "string" THEN p.currency ELSE Null,
     size |-> IF TypeOf(p.size) = "string" THEN p.size ELSE Null]

\* ImageAttempt with only JSON.parse inside the try block, as analyzeWishText
\* has it: the errors of fetch(), res.json() and of reading the body leave it
ImageAttemptUncaught(reply) ==
    IF reply.kind = "json"
    THEN [returned |-> TRUE, threw |-> FALSE, value |-> ImageRecord(reply.parsed)]
    ELSE [returned |-> FALSE,
          threw |-> reply.kind \in {"reject", "badbody", "nulldata", "nonstring"}]

\* one provider block of analyzeImage, its request answered by reply: the
\* whole block is inside try/catch, so every failure falls through
ImageAttempt(reply) ==
    IF reply.kind = "json"
    THEN [returned |-> TRUE, threw |-> FALSE, value |-> ImageRecord(reply.parsed)]
    ELSE [returned |-> FALSE, threw |-> FALSE]

\* NextProvider without the test of the provider's key: the cascade that
\* calls a provider that is not configured
NextProviderAny(e, i) == i + 1

\* the position in VisionProviders of the first configured provider after
\* position i, Len(VisionProviders) + 1 when there is none
NextProvider(e, i) ==
    LET later == {j \in (i + 1)..Len(VisionProviders) : ProviderKey(VisionProviders[j]) \in e}
    IN IF later = {} THEN Len(VisionProviders) + 1
       ELSE CHOOSE j \in later : \A k \in later : j <= k

----------------------------------------------------------------------------
(* A rendered page.  The HTML string is modelled by what it holds, in      *)
(* document order:                                                         *)
(*   html.meta    the content of the og:title, og:price:amount,            *)
(*                og:price:currency and og:image meta tags (Null: no tag)  *)
(*   html.title   the text of <title> (Null: no title)                     *)
(*   html.blocks  the <script> blocks, each [ld, valid, json]: whether its *)
(*                type is application/ld+json, whether JSON.parse accepts  *)
(*                its text, and the JSON tree the text spells              *)
(*   html.dataPrice  the value of a data-price attribute (Null: none)      *)
(*   html.text    the rest of the markup, a character sequence             *)
(* A JSON object is Obj of the sequence of its <<key, value>> members in   *)
(* the order of the text, "type" and "graph" standing for the keys @type   *)
(* and @graph; a JSON array is Arr of the sequence of its items.           *)
(***************************************************************************)

\* obj[k]: the member k of a JSON object, undefined for any other value
Get(v, k) ==
    IF v.t = "object" /\ \E i \in 1..Len(v.f) : v.f[i][1] = k
    THEN v.f[CHOOSE i \in 1..Len(v.f) :
                /\ v.f[i][1] = k
                /\ \A j \in 1..Len(v.f) : v.f[j][1] = k => j <= i][2]
    ELSE Undefined

\* the <<key, value>> members of a JSON tree in the order of its text
RECURSIVE Members(_)
MembersOfSeq(items, i) ==
    LET F[k \in 0..Len(items)] ==
            IF k = 0 THEN <<>>
            ELSE F[k - 1] \o (IF i = 0 THEN Members(items[k])
                              ELSE <<items[k]>> \o Members(items[k][2]))
    IN F[Len(items)]
Members(v) ==
    CASE v.t = "object" -> MembersOfSeq(v.f, 1)
      [] v.t = "array" -> MembersOfSeq(v.a, 0)
      [] OTHER -> <<>>

\* the first position of seq whose item satisfies Test, 0 when there is none
FirstIndex(seq, Test(_)) ==
    Bind({i \in 1..Len(seq) : Test(seq[i])},
         LAMBDA hits : IF hits = {} THEN 0 ELSE Min(hits))

\* extractTitle(html)
extractTitle(html) == IF html.title = Null THEN Null ELSE Trim(html.title)

\* extractMeta(html, name): the content of the first matching tag
extractMeta(html, name) == html.meta[name]

\* String(obj["@type"] || "").includes("Product")
TypeIncludesProduct(v) ==
    Bind(Or(Get(v, "type"), Str(<<>>)), LAMBDA ty :
    Bind(<<"P", "r", "o", "d", "u", "c", "t">>, LAMBDA word :
        CASE ty.t = "string" -> Includes(ty.s, word)
          [] ty.t = "array" ->
                \E i \in 1..Len(ty.a) : ty.a[i].t = "string" /\ Includes(ty.a[i].s, word)
          [] OTHER -> FALSE))

\* findProductInJsonLd(obj); a JSON null stands for both null and undefined
RECURSIVE findProductInJsonLd(_)
findProductInJsonLd(obj) ==
    IF ~Truthy(obj) THEN Null
    ELSE IF TypeIncludesProduct(obj) THEN obj
    ELSE IF obj.t = "array"
         THEN Bind(FirstIndex(obj.a, LAMBDA x : Truthy(findProductInJsonLd(x))),
                   LAMBDA i : IF i = 0 THEN Null ELSE obj.a[i])
    ELSE Bind(Get(obj, "graph"),
              LAMBDA graph : IF Truthy(graph) THEN findProductInJsonLd(graph) ELSE Null)

\* extractJsonLd(html): the first ld+json block that parses and holds a product
extractJsonLd(html) ==
    Bind([k \in 1..Len(html.blocks) |->
            IF html.blocks[k].ld /\ html.blocks[k].valid
            THEN findProductInJsonLd(html.blocks[k].json)
            ELSE Null],
         LAMBDA found :
            Bind(FirstIndex(found, Truthy),
                 LAMBDA i : IF i = 0 THEN Null ELSE found[i]))

----------------------------------------------------------------------------
(* extractFromJsonBlobs: the scan of every <script> block.                 *)

\* (?:[^"\\]|\\.){5,200} between quotes: a string of 5 to 200 characters
IsBlobName(v) == v.t = "string" /\ Length(v) >= 5 /\ Length(v) <= 200

\* /^(true|false|null|undefined|N\/A)$/i
IsPlaceholderName(v) ==
    ToLowerCase(v.s) \in
        { <<"t", "r", "u", "e">>, <<"f", "a", "l", "s", "e">>, <<"n", "u", "l", "l">>,
          <<"u", "n", "d", "e", "f", "i", "n", "e", "d">>, ToLowerCase(W_NA) }

\* a number written without quotes that starts with a digit
IsBareNumber(v) == v.t = "number" /\ v.n >= 0

\* the value the regex captures for the first member key of block b whose
\* value satisfies Test, Null when no member matches
FirstMember(b, key, Test(_)) ==
    Bind(Members(b.json), LAMBDA ms :
    Bind(FirstIndex(ms, LAMBDA m : m[1] = key /\ Test(m[2])),
         LAMBDA i : IF i = 0 THEN Null ELSE ms[i][2]))

\* out.name after block b, out.name being unset before it
BlobNameOfBlock(b) ==
    Bind(FirstMember(b, "productName", IsBlobName), LAMBDA nameM :
    Bind(IF nameM = Null THEN Null ELSE Trim(nameM), LAMBDA n1 :
    Bind(FirstMember(b, "name", IsBlobName), LAMBDA nameM2 :
        IF Truthy(n1) THEN n1
        ELSE IF nameM2 # Null /\ ~IsPlaceholderName(nameM2) THEN Trim(nameM2)
        ELSE n1)))

\* out.price after block b, out.price being unset before it
BlobPriceOfBlock(b) ==
    Bind(FirstMember(b, "price", IsBareNumber), LAMBDA priceM :
        IF priceM # Null /\ priceM.n > 0 /\ priceM.n < PriceLimit THEN priceM ELSE Null)

\* the string values of a JSON tree, in the order of its text
RECURSIVE StringsOf(_)
StringsOf(v) ==
    LET Fold(items, isObj) ==
            LET F[k \in 0..Len(items)] ==
                    IF k = 0 THEN <<>>
                    ELSE F[k - 1] \o StringsOf(IF isObj THEN items[k][2] ELSE items[k])
            IN F[Len(items)]
    IN CASE v.t = "object" -> Fold(v.f, TRUE)
         [] v.t = "array" -> Fold(v.a, FALSE)
         [] v.t = "string" -> <<v.s>>
         [] OTHER -> <<>>

\* the pieces of text of the page, in document order: the meta contents, the
\* title, the strings of the script blocks, the rest of the markup
TextPieces(html) ==
    LET metas == <<html.meta.ogTitle, html.meta.ogPrice, html.meta.ogCurrency,
                   html.meta.ogImage, html.title>>
        metaText == [i \in 1..Len(metas) |-> IF metas[i] = Null THEN <<>> ELSE metas[i].s]
        B[k \in 0..Len(html.blocks)] ==
            IF k = 0 THEN <<>> ELSE B[k - 1] \o StringsOf(html.blocks[k].json)
    IN metaText \o B[Len(html.blocks)] \o <<html.text>>

\* html.includes(word)
HtmlIncludes(html, word) ==
    Bind(TextPieces(html), LAMBDA pieces :
        \E i \in 1..Len(pieces) : Includes(pieces[i], word))

W_goldapple == <<"g", "o", "l", "d", "a", "p", "p", "l", "e">>

\* extractFromJsonBlobs(html, baseUrl), without the image
extractFromJsonBlobs(html) ==
    Bind([k \in 1..Len(html.blocks) |-> BlobNameOfBlock(html.blocks[k])], LAMBDA names :
    Bind([k \in 1..Len(html.blocks) |-> BlobPriceOfBlock(html.blocks[k])], LAMBDA prices :
    Bind(FirstIndex(names, Truthy), LAMBDA ni :
    Bind(FirstIndex(prices, LAMBDA p : p # Null), LAMBDA pi :
        [name |-> IF ni = 0 THEN Null ELSE names[ni],
         price |-> IF pi = 0 THEN Null ELSE prices[pi],
         currency |-> IF HtmlIncludes(html, W_BYN) \/ HtmlIncludes(html, W_goldapple)
                      THEN Str(S_Br) ELSE Null]))))

----------------------------------------------------------------------------
(* extractPriceFromHtml and extractCurrencyFromHtml: the heuristics.       *)

\* ["']?(\d+(?:[.,]\d+)?)["']?: a number, or a string that starts with a digit
IsPriceLiteral(v) ==
    \/ IsBareNumber(v)
    \/ v.t = "string" /\ Len(v.s) > 0 /\ v.s[1] \in Digits

\* parseFloat of the digits the pattern captures from the literal v
PriceLiteralValue(v) ==
    IF v.t = "number" THEN v ELSE ParseFloat(SubSeq(v.s, 1, RunEnd(v.s, 1, Digits) - 1))

\* the members of all script blocks in document order
AllMembers(html) ==
    LET B[k \in 0..Len(html.blocks)] ==
            IF k = 0 THEN <<>> ELSE B[k - 1] \o Members(html.blocks[k].json)
    IN B[Len(html.blocks)]

\* the first match of a key pattern over the whole page, Null when none
FirstInPage(html, key, Test(_)) ==
    Bind(AllMembers(html), LAMBDA ms :
    Bind(FirstIndex(ms, LAMBDA m : m[1] = key /\ Test(m[2])),
         LAMBDA i : IF i = 0 THEN Null ELSE ms[i][2]))

\* what each pattern of extractPriceFromHtml captures, in the patterns' order
\* (the modelled pages hold no itemprop attribute and no framework marker)
PricePatternMatches(html) ==
    << FirstInPage(html, "price", IsPriceLiteral),
       FirstInPage(html, "price", IsBareNumber),
       FirstInPage(html, "currentPrice", IsPriceLiteral),
       FirstInPage(html, "salePrice", IsPriceLiteral),
       FirstInPage(html, "basePrice", IsPriceLiteral),
       FirstInPage(html, "productPrice", IsPriceLiteral),
       IF html.dataPrice # Null /\ IsPriceLiteral(html.dataPrice) THEN html.dataPrice ELSE Null >>

\* !isNaN(n) && n > 0 && n < 1e9
IsHeuristicPrice(n) == n.t = "number" /\ n.n > 0 /\ n.n < PriceLimit

\* extractPriceFromHtml(html)
extractPriceFromHtml(html) ==
    Bind(PricePatternMatches(html), LAMBDA ms :
    Bind([k \in 1..Len(ms) |-> IF ms[k] = Null THEN NaN ELSE PriceLiteralValue(ms[k])],
         LAMBDA ns :
            Bind(FirstIndex(ns, IsHeuristicPrice),
                 LAMBDA i : IF i = 0 THEN Null ELSE ns[i])))

\* ["']([A-Z]{3})["'] with the i flag
IsCurrencyCode(v) ==
    v.t = "string" /\ v.pad = 0 /\ Len(v.s) = 3 /\ \A i \in 1..3 : v.s[i] \in AsciiLetters

\* the alternatives of the token pattern of extractCurrencyFromHtml
CurrencyTokens ==
    << [base |-> W_BYN, opt |-> <<>>],
       [base |-> W_Br, opt |-> <<>>],
       [base |-> S_Rouble, opt |-> <<>>],
       [base |-> W_rub, opt |-> <<".">>],
       [base |-> W_RUB, opt |-> <<>>],
       [base |-> W_USD, opt |-> <<>>],
       [base |-> S_Dollar, opt |-> <<>>],
       [base |-> W_EUR, opt |-> <<>>],
       [base |-> S_Euro, opt |-> <<>>] >>

\* the length of the token the pattern \b(...)\b matches at position p of s,
\* 0 when it matches none there
CurrencyTokenLenOf(s, p, k) ==
    Bind(CurrencyTokens[k], LAMBDA alt :
    Bind(Len(alt.base), LAMBDA n :
        IF ~MatchAtCI(s, p, alt.base) THEN 0
        ELSE IF alt.opt # <<>> /\ MatchAtCI(s, p + n, alt.opt) /\ WordBoundary(s, p + n + 1)
             THEN n + 1
        ELSE IF WordBoundary(s, p + n) THEN n
        ELSE 0))

CurrencyTokenLen(s, p) ==
    Bind([k \in 1..Len(CurrencyTokens) |-> CurrencyTokenLenOf(s, p, k)], LAMBDA len :
    Bind({k \in 1..Len(CurrencyTokens) : len[k] > 0}, LAMBDA hits :
        IF ~WordBoundary(s, p) \/ hits = {} THEN 0 ELSE len[Min(hits)]))

\* the token the pattern matches first in s, <<>> when it matches none
FirstCurrencyToken(s) ==
    Bind([p \in 1..Len(s) |-> CurrencyTokenLen(s, p)], LAMBDA len :
    Bind({p \in 1..Len(s) : len[p] > 0}, LAMBDA starts :
        IF starts = {} THEN <<>>
        ELSE SubSeq(s, Min(starts), Min(starts) + len[Min(starts)] - 1)))

\* the symbol extractCurrencyFromHtml gives for the code c of "priceCurrency"
NormalizeCurrencyCode(c) ==
    IF TestCI(c, W_BYN) \/ TestCI(c, W_Br) THEN Str(S_Br)
    ELSE IF TestCI(c, W_RUB) THEN Str(S_Rouble)
    ELSE IF TestCI(c, W_USD) THEN Str(S_Dollar)
    ELSE IF TestCI(c, W_EUR) THEN Str(S_Euro)
    ELSE IF TestCI(c, W_KZT) THEN Str(S_Tenge)
    ELSE Str(c)

\* the symbol extractCurrencyFromHtml gives for the token c found in the text
NormalizeCurrencyToken(c) ==
    IF TestCI(c, W_BYN) \/ TestCI(c, W_Br) THEN Str(S_Br)
    ELSE IF TestCI(c, W_RUB) \/ TestCI(c, S_Rouble) \/ TestCI(c, W_rub) THEN Str(S_Rouble)
    ELSE IF TestCI(c, W_USD) \/ TestCI(c, S_Dollar) THEN Str(S_Dollar)
    ELSE IF TestCI(c, W_EUR) \/ TestCI(c, S_Euro) THEN Str(S_Euro)
    ELSE Null

\* extractCurrencyFromHtml(html)
extractCurrencyFromHtml(html) ==
    Bind(FirstInPage(html, "priceCurrency", IsCurrencyCode), LAMBDA m1 :
        IF m1 # Null THEN NormalizeCurrencyCode(m1.s)
        ELSE Bind(TextPieces(html), LAMBDA pieces :
             Bind([k \in 1..Len(pieces) |-> FirstCurrencyToken(pieces[k])], LAMBDA tokens :
             Bind(FirstIndex(tokens, LAMBDA c : c # <<>>), LAMBDA i :
                IF i # 0 THEN NormalizeCurrencyToken(tokens[i]) ELSE Null))))

----------------------------------------------------------------------------
(* parse: the Attribute Resolver.                                          *)

\* Array.isArray(jsonLd.offers) ? jsonLd.offers[0] : jsonLd.offers
FirstOffer(jsonLd) ==
    Bind(Get(jsonLd, "offers"), LAMBDA offers :
        IF offers.t = "array"
        THEN (IF offers.a = <<>> THEN Undefined ELSE offers.a[1])
        ELSE offers)

\* typeof off.price === "number" ? off.price : parseFloat(off.price)
OfferPrice(off) ==
    Bind(Get(off, "price"),
         LAMBDA p : IF TypeOf(p) = "number" THEN p ELSE ParseFloatValue(p))

\* the price of parse before the final type check
ResolvePrice(ogPrice, jsonLd, blob, html) ==
    Bind(IF Truthy(ogPrice) THEN ParseFloatValue(ogPrice) ELSE Null, LAMBDA p1 :
    Bind(IF IsNullish(p1) /\ Truthy(jsonLd) /\ Truthy(Get(jsonLd, "offers"))
         THEN Bind(FirstOffer(jsonLd),
                   LAMBDA off : IF Truthy(off) THEN OfferPrice(off) ELSE Null)
         ELSE p1, LAMBDA p2 :
    Bind(IF IsNullish(p2) THEN blob.price ELSE p2, LAMBDA p3 :
        IF IsNullish(p3) THEN extractPriceFromHtml(html) ELSE p3)))

\* the currency of parse before the final type check
ResolveCurrency(ogCurrency, jsonLd, blob, html) ==
    Bind(Or(ogCurrency, Null), LAMBDA c1 :
    Bind(IF ~Truthy(c1) /\ Truthy(jsonLd) /\ Truthy(Get(jsonLd, "offers"))
         THEN Bind(FirstOffer(jsonLd),
                   LAMBDA off : And(off, Or(Get(off, "priceCurrency"), Get(off, "currency"))))
         ELSE c1, LAMBDA c2 :
    Bind(IF ~Truthy(c2) THEN blob.currency ELSE c2, LAMBDA c3 :
        IF ~Truthy(c3) THEN extractCurrencyFromHtml(html) ELSE c3)))

\* the name of parse before the final type check
ResolveName(ogTitle, jsonLd, blob, title) ==
    Or(Or(Or(Or(ogTitle, And(jsonLd, Get(jsonLd, "name"))), blob.name), title), Str(W_NA))

\* p.name === "Размер" || p.name === "Size"
IsSizeProperty(p) ==
    Get(p, "name") \in
        { Str(<<"S", "i", "z", "e">>), Str(<<"C_r", "c_a", "c_z", "c_m", "c_e", "c_r">>) }

\* jsonLd.additionalProperty.find(...) throws: the member is set and no array
SizeLookupThrows(jsonLd) ==
    Bind(And(jsonLd, Get(jsonLd, "additionalProperty")), LAMBDA ap :
        ~Truthy(And(jsonLd, Get(jsonLd, "size"))) /\ Truthy(ap) /\ ap.t # "array")

\* the size of parse before the final type check
ResolveSize(jsonLd) ==
    Bind(And(jsonLd, Get(jsonLd, "additionalProperty")), LAMBDA ap :
    Bind(IF Truthy(ap) /\ ap.t = "array" THEN FirstIndex(ap.a, IsSizeProperty) ELSE 0, LAMBDA i :
    Bind(IF i = 0 THEN Undefined ELSE Get(ap.a[i], "value"), LAMBDA found :
        Or(Or(And(jsonLd, Get(jsonLd, "size")), IF Truthy(ap) THEN found ELSE ap), Null))))

\* the record parse returns: each field is kept when it has its type
ParsedRecord(name, price, currency, size, targetUrl, ogImage) ==
    [name |-> IF TypeOf(name) = "string" THEN name ELSE Str(W_NA),
     price |-> IF TypeOf(price) = "number" /\ ~IsNaN(price) THEN price ELSE Null,
     currency |-> IF TypeOf(currency) = "string" THEN currency ELSE Null,
     size |-> IF TypeOf(size) = "string" THEN size ELSE Null,
     link |-> targetUrl,
     image |-> Or(ogImage, Null)]

\* parse(html, targetUrl): [threw |-> TRUE] when it throws, else the record
\* (its image is the og:image only)
parse(html, targetUrl) ==
    Bind(extractJsonLd(html), LAMBDA jsonLd :
    Bind(extractFromJsonBlobs(html), LAMBDA blob :
        IF SizeLookupThrows(jsonLd) THEN [threw |-> TRUE]
        ELSE [threw |-> FALSE,
              value |->
                ParsedRecord(
                    ResolveName(extractMeta(html, "ogTitle"), jsonLd, blob, extractTitle(html)),
                    ResolvePrice(extractMeta(html, "ogPrice"), jsonLd, blob, html),
                    ResolveCurrency(extractMeta(html, "ogCurrency"), jsonLd, blob, html),
                    ResolveSize(jsonLd),
                    targetUrl,
                    extractMeta(html, "ogImage"))]))

----------------------------------------------------------------------------
(* analyzeImage as a function of what the providers answer.                *)

\* analyzeImage(imageBase64) in the environment e, provider p answering
\* replies[p]: the record of the first configured provider, in the order of
\* VisionProviders, whose block returns
analyzeImage(e, replies) ==
    Bind([i \in 1..Len(VisionProviders) |-> ImageAttempt(replies[VisionProviders[i]])],
         LAMBDA got :
    Bind({i \in 1..Len(VisionProviders) :
            /\ ProviderKey(VisionProviders[i]) \in e
            /\ got[i].returned \/ got[i].threw},
         LAMBDA ends :
            IF ends = {} THEN [threw |-> FALSE, value |-> UnknownRecord]
            ELSE IF got[Min(ends)].threw THEN [threw |-> TRUE]
            ELSE [threw |-> FALSE, value |-> got[Min(ends)].value]))

----------------------------------------------------------------------------
(* The inputs the resolution functions are checked on.                     *)

Sp == <<" ">>
W_Nike == <<"N", "i", "k", "e">>
W_krossovki == <<"c_k", "c_r", "c_o", "c_s", "c_s", "c_o", "c_v", "c_k", "c_i">>
W_za == <<"c_z", "c_a">>

\* "хочу кроссовки Nike 42 за 150 руб"
T_Sneakers ==
    W_hochu \o Sp \o W_krossovki \o Sp \o W_Nike \o Sp \o <<"4", "2">> \o Sp \o W_za
        \o Sp \o <<"1", "5", "0">> \o Sp \o W_rub
\* "хочу Nike 2000000000 $"
T_Huge == W_hochu \o Sp \o W_Nike \o Sp \o <<"2", "0", "0", "0", "0", "0", "0", "0", "0", "0">> \o Sp \o S_Dollar
\* "Nike XL 99 EUR"
T_Euro == W_Nike \o Sp \o <<"X", "L">> \o Sp \o <<"9", "9">> \o Sp \o W_EUR
\* "хочу Nike"
T_Plain == W_hochu \o Sp \o W_Nike

WishTexts == {Str(T_Sneakers), Str(T_Huge), Str(T_Euro), Str(T_Plain)}

\* the currency tokens of priceRe's second group the fallback is checked on,
\* each with the symbol of its family
PriceTokens ==
    {[token |-> W_rub, symbol |-> S_Rouble],
     [token |-> S_Rouble, symbol |-> S_Rouble],
     [token |-> W_rublej, symbol |-> S_Rouble],
     [token |-> W_Br, symbol |-> S_Br],
     [token |-> W_BYN, symbol |-> S_Br],
     [token |-> W_bun, symbol |-> S_Br],
     [token |-> S_Dollar, symbol |-> S_Dollar],
     [token |-> W_USD, symbol |-> S_Dollar],
     [token |-> W_dollaro \o <<"c_v">>, symbol |-> S_Dollar],
     [token |-> S_Euro, symbol |-> S_Euro],
     [token |-> W_EUR, symbol |-> S_Euro]}

\* the numbers written next to a currency token, as digits and as value
PriceNumbers == {[digits |-> <<"1", "5", "0">>, n |-> 150], [digits |-> <<"7">>, n |-> 7]}

\* the texts "хочу Nike <number><token>" and "хочу Nike <number> <token>",
\* each with the price span written in it, its number and its symbol
PricedTexts ==
    {[path |-> "fallback",
      text |-> Str(W_hochu \o Sp \o W_Nike \o Sp \o p.digits \o sep \o c.token),
      span |-> p.digits \o sep \o c.token,
      price |-> p.n,
      symbol |-> c.symbol,
      size |-> Null] : p \in PriceNumbers, sep \in {<<>>, Sp}, c \in PriceTokens}

\* "хочу кроссовки Nike 42 за 150 руб", priced in roubles, of size 42
SneakersText ==
    [path |-> "fallback", text |-> Str(T_Sneakers),
     span |-> <<"1", "5", "0">> \o Sp \o W_rub, price |-> 150, symbol |-> S_Rouble,
     size |-> Str(<<"4", "2">>)]

\* the values a provider may give a member of its JSON object
NameValues == {Undefined, Str(W_Nike), Str(Sp), Num(7)}
PriceValues == {Undefined, Null, Num(150), Num(0), Num(0 - 5), Num(PriceLimit), Str(<<"1", "5", "0">>)}
CurrencyValues ==
    {Undefined, Null, Str(W_RUB), Str(W_rub), Str(W_BYN), Str(W_USD), Str(W_EUR), Str(W_KZT),
     Str(S_Rouble), Str(<<"u", "s", "d">>), Str(<<"G", "B", "P">>), Num(1)}
SizeValues == {Null, Str(<<"4", "2">>)}

ParsedObjects ==
    [name : NameValues, price : PriceValues, currency : CurrencyValues, size : SizeValues]

\* every reply a provider may give
Replies ==
    {[kind |-> k] : k \in ReplyKinds \ {"json"}}
        \cup {[kind |-> "json", parsed |-> p] : p \in ParsedObjects}

\* the replies the vision cascade is checked on
VisionReplies ==
    {[kind |-> k] : k \in ReplyKinds \ {"json"}}
        \cup {[kind |-> "json", parsed |-> p] :
                p \in [name : {Str(W_Nike)}, price : {Num(150), Num(0 - 5)},
                       currency : {Null, Str(W_USD)}, size : {Null}]}

Environments == SUBSET ApiKeys

----------------------------------------------------------------------------
(* The pages the resolver is checked on.                                   *)

W_OgShoe == <<"O", "G", " ", "S", "h", "o", "e">>
W_LdShoe == <<"L", "D", " ", "S", "h", "o", "e">>
W_BlobShoe == <<"B", "l", "o", "b", " ", "S", "h", "o", "e">>
W_Shop == <<"S", "h", "o", "p">>
W_Product == <<"P", "r", "o", "d", "u", "c", "t">>
W_WebSite == <<"W", "e", "b", "S", "i", "t", "e">>
W_GBP == <<"G", "B", "P">>
W_abc == <<"a", "b", "c">>
W_Size == <<"S", "i", "z", "e">>
W_TwoBillion == <<"2", "0", "0", "0", "0", "0", "0", "0", "0", "0">>

LdBlock(json) == [ld |-> TRUE, valid |-> TRUE, json |-> json]
\* an ld+json block JSON.parse rejects
LdInvalid == [ld |-> TRUE, valid |-> FALSE, json |-> Obj(<< <<"type", Str(W_Product)>> >>)]
ScriptBlock(json) == [ld |-> FALSE, valid |-> TRUE, json |-> json]

Product(members) == Obj(<< <<"type", Str(W_Product)>> >> \o members)

\* the ld+json blocks of a page
LdBlockSeqs ==
    { <<>>,
      << LdBlock(Product(<< <<"name", Str(W_LdShoe)>>,
                            <<"offers", Obj(<< <<"price", Num(200)>>,
                                               <<"priceCurrency", Str(W_USD)>> >>)>> >>)) >>,
      << LdBlock(Product(<< <<"name", Num(123)>>,
                            <<"offers", Obj(<< <<"price", Str(W_abc)>> >>)>> >>)) >>,
      << LdBlock(Product(<< <<"offers", Obj(<< <<"availability", Str(<<"I", "n">>)>> >>)>> >>)) >>,
      << LdBlock(Obj(<< <<"graph",
            Arr(<< Obj(<< <<"type", Str(W_WebSite)>>, <<"name", Str(W_Shop)>> >>),
                   Product(<< <<"name", Str(W_LdShoe)>>,
                              <<"offers", Arr(<< Obj(<< <<"price", Str(<<"2", "5", "0">>)>>,
                                                        <<"priceCurrency", Str(W_BYN)>> >>) >>)>>,
                              <<"additionalProperty",
                                Arr(<< Obj(<< <<"name", Str(W_Size)>>,
                                              <<"value", Str(<<"4", "2">>)>> >>) >>)>> >>) >>)>> >>)) >>,
      << LdInvalid,
         LdBlock(Product(<< <<"name", Str(W_LdShoe)>>,
                            <<"offers", Obj(<< <<"price", Num(0 - 7)>>,
                                               <<"priceCurrency", Str(W_EUR)>> >>)>> >>)) >>,
      << LdBlock(Product(<< <<"name", Str(W_LdShoe)>>,
                            <<"offers", Obj(<< <<"price", Num(PriceLimit)>>,
                                               <<"currency", Str(W_rub)>> >>)>> >>)) >>,
      << LdBlock(Product(<< <<"name", Str(W_LdShoe)>>,
                            <<"additionalProperty",
                              Obj(<< <<"name", Str(W_Size)>>, <<"value", Str(<<"4", "2">>)>> >>)>> >>)) >> }

\* the other script blocks of a page
ScriptBlockSeqs ==
    { <<>>,
      << ScriptBlock(Obj(<< <<"productName", Str(W_BlobShoe)>>, <<"price", Num(150)>> >>)) >>,
      << ScriptBlock(Obj(<< <<"name", Str(<<"f", "a", "l", "s", "e">>)>>, <<"price", Num(0)>>,
                            <<"currentPrice", Str(<<"1", "7", "5">>)>> >>)) >>,
      << ScriptBlock(Obj(<< <<"name", Str(W_BlobShoe)>>, <<"priceCurrency", Str(W_KZT)>> >>)) >> }

Pages ==
    { [meta |-> [ogTitle |-> ogTitle, ogPrice |-> ogPrice, ogCurrency |-> ogCurrency,
                 ogImage |-> Null],
       title |-> title, blocks |-> lds \o scripts, dataPrice |-> dataPrice, text |-> text] :
        ogTitle \in {Null, Str(W_OgShoe)},
        ogPrice \in {Null, Str(<<"1", "0", "0">>), Str(W_abc), Str(<<"-", "5">>), Str(W_TwoBillion)},
        ogCurrency \in {Null, Str(W_RUB), Str(W_GBP)},
        title \in {Null, Str(W_Shop)},
        lds \in LdBlockSeqs,
        scripts \in ScriptBlockSeqs,
        dataPrice \in {Null, Str(<<"9", "9">>)},
        text \in {<<>>, <<"<", "b", "r", ">">>, <<"5", " ", "R", "U", "B">>} }

TargetUrl == Str(<<"h", "t", "t", "p", "s", ":", "/", "/", "s", "h", "o", "p">>)

\* a Product node and a node of another type
ShoeNode == Product(<< <<"name", Str(W_LdShoe)>> >>)
SiteNode == Obj(<< <<"type", Str(W_WebSite)>>, <<"name", Str(W_Shop)>> >>)

\* { "@graph": x }
Graph(x) == Obj(<< <<"graph", x>> >>)

\* the ld+json blocks the product locator is checked on.  found says that
\* the page holds ShoeNode at the top of a block or one level inside a
\* @graph or array wrapper of a block that parses
LocatorInputs ==
    {[path |-> "jsonld", blocks |-> <<LdBlock(ShoeNode)>>, found |-> TRUE],
     [path |-> "jsonld", blocks |-> <<LdBlock(SiteNode)>>, found |-> FALSE],
     [path |-> "jsonld", blocks |-> <<LdBlock(Arr(<<SiteNode, ShoeNode>>))>>, found |-> TRUE],
     [path |-> "jsonld", blocks |-> <<LdBlock(Graph(Arr(<<SiteNode, ShoeNode>>)))>>,
      found |-> TRUE],
     [path |-> "jsonld", blocks |-> <<LdBlock(Graph(ShoeNode))>>, found |-> TRUE],
     [path |-> "jsonld", blocks |-> <<LdBlock(Arr(<<SiteNode>>))>>, found |-> FALSE],
     [path |-> "jsonld", blocks |-> <<LdBlock(Arr(<<Graph(Arr(<<SiteNode, ShoeNode>>))>>))>>,
      found |-> FALSE],
     [path |-> "jsonld", blocks |-> <<LdBlock(Arr(<<Arr(<<ShoeNode>>)>>))>>, found |-> FALSE],
     [path |-> "jsonld", blocks |-> <<LdBlock(Graph(Arr(<<Graph(ShoeNode)>>)))>>,
      found |-> FALSE],
     [path |-> "jsonld", blocks |-> <<LdInvalid, LdBlock(ShoeNode)>>, found |-> TRUE],
     [path |-> "jsonld", blocks |-> <<LdBlock(SiteNode), LdInvalid,
                                      LdBlock(Graph(Arr(<<ShoeNode>>)))>>, found |-> TRUE],
     [path |-> "jsonld", blocks |-> <<LdInvalid>>, found |-> FALSE]}

\* the symbols of the closed set of currencies
CurrencySymbols == {S_Rouble, S_Br, S_Dollar, S_Euro, S_Tenge}

\* the raw codes the normalizers are checked on
CurrencyCodes == {W_RUB, W_BYN, W_USD, W_EUR, W_KZT, W_GBP, W_rub, <<"u", "s", "d">>}

\* a page with nothing on it but the script blocks and the text given
BarePage(blocks, text) ==
    [meta |-> [ogTitle |-> Null, ogPrice |-> Null, ogCurrency |-> Null, ogImage |-> Null],
     title |-> Null, blocks |-> blocks, dataPrice |-> Null, text |-> text]

\* one application of a currency normalizer to the value c: "curMap" is the
\* currency analyzeWishText returns for a reply whose currency is c, "text"
\* is extractCurrencyFromHtml of a page whose text is c, "field" is
\* extractCurrencyFromHtml of a page with a script holding "priceCurrency": c
NormalizeVia(via, c) ==
    CASE via = "curMap" ->
            WishTextRecord([name |-> Str(W_Nike), price |-> Null, currency |-> c, size |-> Null],
                           Str(T_Plain)).currency
      [] c = Null -> Null
      [] via = "text" -> extractCurrencyFromHtml(BarePage(<<>>, c.s))
      [] via = "field" ->
            extractCurrencyFromHtml(
                BarePage(<<ScriptBlock(Obj(<< <<"priceCurrency", c>> >>))>>, <<>>))

----------------------------------------------------------------------------
(* The resolution functions, each applied to inputs drawn from the sets    *)
(* above.                                                                  *)

NotRun == [done |-> FALSE]

\* a Map without entries
EmptyMap == [k \in {} |-> Null]

\* the server's variables, at rest
ServerIdle ==
    /\ now = 0
    /\ wishTextStore = EmptyMap
    /\ timers = {}
    /\ env = {}
    /\ supabase = FALSE
    /\ inflight = EmptyMap
    /\ browsers = 0
    /\ nreq = 0
    /\ last = [n |-> 0]

serverVars == <<now, wishTextStore, timers, env, supabase, inflight, browsers, nreq, last>>

InitResolve ==
    /\ ServerIdle
    /\ \/ \E h \in Pages : input = [path |-> "parse", html |-> h]
       \/ \E e \in Environments, t \in WishTexts, r \in Replies :
            input = [path |-> "wish", env |-> e, text |-> t, reply |-> r]
       \/ \E e \in Environments, rs \in [ApiKeys -> VisionReplies] :
            input = [path |-> "image", env |-> e, replies |-> rs]
       \/ input \in PricedTexts \cup {SneakersText}
       \/ input \in LocatorInputs
       \/ \E via \in {"curMap", "text", "field"}, c \in CurrencySymbols \cup CurrencyCodes :
            input = [path |-> "currency", via |-> via, code |-> c]
    /\ output = NotRun

ApplyParse ==
    /\ input.path = "parse"
    /\ ~output.done
    /\ output' = [done |-> TRUE] @@ parse(input.html, TargetUrl)
    /\ UNCHANGED <<serverVars, input>>

ApplyAnalyzeWishText ==
    /\ input.path = "wish"
    /\ ~output.done
    /\ output' = [done |-> TRUE] @@ analyzeWishText(input.env, input.text, input.reply)
    /\ UNCHANGED <<serverVars, input>>

ApplyAnalyzeImage ==
    /\ input.path = "image"
    /\ ~output.done
    /\ output' = [done |-> TRUE]
                    @@ analyzeImage(input.env,
                                    [p \in {"Groq", "OpenRouter", "Gemini"} |->
                                        input.replies[ProviderKey(p)]])
    /\ UNCHANGED <<serverVars, input>>

ApplyFallback ==
    /\ input.path = "fallback"
    /\ ~output.done
    /\ output' = [done |-> TRUE, threw |-> FALSE,
                  value |-> analyzeWishTextFallback(input.text)]
    /\ UNCHANGED <<serverVars, input>>

\* a currency normalizer applied to the code, and applied to what it gave
ApplyNormalize ==
    /\ input.path = "currency"
    /\ ~output.done
    /\ output' = [done |-> TRUE, threw |-> FALSE,
                  once |-> NormalizeVia(input.via, Str(input.code)),
                  twice |-> NormalizeVia(input.via, NormalizeVia(input.via, Str(input.code)))]
    /\ UNCHANGED <<serverVars, input>>

ApplyExtractJsonLd ==
    /\ input.path = "jsonld"
    /\ ~output.done
    /\ output' = [done |-> TRUE, threw |-> FALSE,
                  product |-> extractJsonLd(BarePage(input.blocks, <<>>))]
    /\ UNCHANGED <<serverVars, input>>

NextResolve ==
    \/ ApplyParse
    \/ ApplyAnalyzeWishText
    \/ ApplyAnalyzeImage
    \/ ApplyFallback
    \/ ApplyNormalize
    \/ ApplyExtractJsonLd

SpecResolve == InitResolve /\ [][NextResolve]_vars

\* a resolution function has returned a record
Resolved == output.done /\ ~output.threw /\ "value" \in DOMAIN output

----------------------------------------------------------------------------
(* The server: its requests and the steps of its handlers.  Every action   *)
(* is one callback of the event loop, run to completion: a handler up to   *)
(* its first await that suspends, the continuation after an await, or a    *)
(* timer callback.                                                         *)

\* the ids randomId() draws from
MaxIds == 2
Ids == 1..MaxIds

\* map with key k set to v
Put(map, k, v) == [x \in DOMAIN map \cup {k} |-> IF x = k THEN v ELSE map[x]]

\* map without key k
Delete(map, k) == [x \in DOMAIN map \ {k} |-> map[x]]

\* a text of n characters: "хочу Nike " and a tail of filler letters
LongText(n) == Padded(T_Plain \o Sp, n - Len(T_Plain \o Sp))

\* the values of body.text the server is sent
SubmitTexts ==
    {Undefined, Num(5), Str(<<>>), Str(T_Plain), Str(T_Sneakers),
     LongText(MaxTextLength), LongText(MaxTextLength + 1)}

\* the values of the url query parameter the server is sent: none, a list
\* (?url=a&url=b), an http URL, an https URL
SubmitUrls ==
    {Undefined, Arr(<<TargetUrl>>), Str(<<"h", "t", "t", "p", ":", "/", "/", "s", "h", "o", "p">>),
     TargetUrl}

W_ImageUrl == <<"h", "t", "t", "p", "s", ":", "/", "/", "i", "m", "g">>
W_Base64 == <<"Q", "U", "J", "D">>

\* the bodies POST /analyze-image is sent: image stands for body.image ||
\* body.base64
ImageBodies ==
    {[image |-> Undefined, imageUrl |-> Undefined],
     [image |-> Num(1), imageUrl |-> Undefined],
     [image |-> Str(W_Base64), imageUrl |-> Undefined],
     [image |-> Undefined, imageUrl |-> Str(W_ImageUrl)]}

\* the pages the browser renders for the server
ServerPages ==
    {h \in Pages :
        /\ h.meta.ogPrice \in {Null, Str(W_abc)}
        /\ h.meta.ogTitle = Null
        /\ h.meta.ogCurrency = Null
        /\ h.title = Null
        /\ h.text = <<>>
        /\ h.dataPrice = Null
        /\ h.blocks \in
            { <<>>,
              << ScriptBlock(Obj(<< <<"productName", Str(W_BlobShoe)>>, <<"price", Num(150)>> >>)) >>,
              << LdBlock(Product(<< <<"name", Str(W_LdShoe)>>,
                    <<"additionalProperty",
                      Obj(<< <<"name", Str(W_Size)>>, <<"value", Str(<<"4", "2">>)>> >>)>> >>)) >> }}
        \cup {[meta |-> [ogTitle |-> Str(W_OgShoe), ogPrice |-> Null, ogCurrency |-> Null,
                         ogImage |-> Str(W_ImageUrl)],
               title |-> Null, blocks |-> <<>>, dataPrice |-> Null, text |-> <<>>]}

\* the replies of the text provider the server is given after a response
\* arrived
ServerReplies ==
    {[kind |-> "badbody"], [kind |-> "nospan"],
     [kind |-> "json",
      parsed |-> [name |-> Str(W_Nike), price |-> Num(150), currency |-> Str(W_RUB),
                  size |-> Null]]}

\* a response sent for request n
Responded(n, route, in, status, body) ==
    [n |-> n, route |-> route, input |-> in, threw |-> FALSE, responses |-> 1,
     status |-> status, body |-> body]

\* a response a handler sends from its catch block
RespondedAfterThrow(n, route, in, status, body) ==
    [n |-> n, route |-> route, input |-> in, threw |-> TRUE, responses |-> 1,
     status |-> status, body |-> body]

\* an error left an async handler that has no catch block.  What follows is
\* the framework's doing: express 4 drops the rejected promise and never
\* answers; express 5 hands it to its error handler, which answers 500 with
\* an HTML error page
Unhandled(n, route, in, framework) ==
    [n |-> n, route |-> route, input |-> in, threw |-> TRUE,
     responses |-> IF framework = "express4" THEN 0 ELSE 1,
     status |-> IF framework = "express4" THEN 0 ELSE 500,
     body |-> [html |-> "Internal Server Error"]]

Frameworks == {"express4", "express5"}

CanSuspend == Cardinality(DOMAIN inflight) < MaxInflight

ServerInit ==
    /\ now = 0
    /\ wishTextStore = EmptyMap
    /\ timers = {}
    /\ env \in Environments
    /\ supabase \in BOOLEAN
    /\ inflight = EmptyMap
    /\ browsers = 0
    /\ nreq = 0
    /\ last = [n |-> 0]
    /\ input = Null
    /\ output = NotRun

\* time passes
Tick ==
    /\ now < MaxTime
    /\ now' = now + 1
    /\ UNCHANGED <<wishTextStore, timers, env, supabase, inflight, browsers, nreq, last,
                   input, output>>

\* the callback of setTimeout(() => wishTextStore.delete(id), WISH_TEXT_TTL)
\* runs, at its due time or later
TimerFires(t) ==
    /\ t \in timers
    /\ now >= t.due
    /\ wishTextStore' = Delete(wishTextStore, t.id)
    /\ timers' = timers \ {t}
    /\ UNCHANGED <<now, env, supabase, inflight, browsers, nreq, last, input, output>>

\* InvalidText without the test of the length
InvalidTextNoLimit(text) == ~Truthy(text) \/ TypeOf(text) # "string"

\* !text || typeof text !== "string" || text.length > 2000
InvalidText(text) ==
    ~Truthy(text) \/ TypeOf(text) # "string" \/ Length(text) > MaxTextLength

\* POST /store-wish-text with body.text = text, randomId() returning id
StoreWishText(text, id) ==
    /\ nreq < MaxRequests
    /\ nreq' = nreq + 1
    /\ IF InvalidText(text)
       THEN /\ last' = Responded(nreq + 1, "store-wish-text", [text |-> text], 400,
                                 [error |-> "Invalid text"])
            /\ UNCHANGED <<wishTextStore, timers>>
       ELSE /\ wishTextStore' =
                    Put(wishTextStore, id, [text |-> text, expires |-> now + WISH_TEXT_TTL])
            /\ timers' = timers \cup {[id |-> id, due |-> now + WISH_TEXT_TTL]}
            /\ last' = Responded(nreq + 1, "store-wish-text", [text |-> text], 200, [id |-> id])
    /\ UNCHANGED <<now, env, supabase, inflight, browsers, input, output>>

\* res.json({ text: entry.text, ...extracted })
WishTextBody(entry, extracted) == [text |-> entry.text] @@ extracted

\* a lookup that takes the entry out of the store as it reads it
WishTextGetConsuming(id, analyze) ==
    /\ nreq < MaxRequests
    /\ nreq' = nreq + 1
    /\ last' = IF id \notin DOMAIN wishTextStore
               THEN Responded(nreq + 1, "wish-text", [id |-> id, analyze |-> analyze], 404,
                              [error |-> "Not found or expired"])
               ELSE Responded(nreq + 1, "wish-text", [id |-> id, analyze |-> analyze], 200,
                              [text |-> wishTextStore[id].text])
    /\ wishTextStore' = Delete(wishTextStore, id)
    /\ UNCHANGED <<now, timers, env, supabase, inflight, browsers, input, output>>

\* GET /wish-text?id=&analyze=: the handler up to its response or, when
\* analyzeWishText has a key and calls fetch(), up to that await.  Without a
\* key analyzeWishText returns at once and the handler's await resumes
\* before any other callback runs
WishTextGet(id, analyze) ==
    LET n == nreq + 1
        in == [id |-> id, analyze |-> analyze]
        entry == wishTextStore[id]
    IN /\ nreq < MaxRequests
       /\ nreq' = n
       /\ IF id \notin DOMAIN wishTextStore
          THEN /\ last' = Responded(n, "wish-text", in, 404, [error |-> "Not found or expired"])
               /\ UNCHANGED inflight
          ELSE IF ~analyze
          THEN /\ last' = Responded(n, "wish-text", in, 200, [text |-> entry.text])
               /\ UNCHANGED inflight
          ELSE IF ~WishTextHasKey(env)
          THEN /\ last' = Responded(n, "wish-text", in, 200,
                                    WishTextBody(entry, analyzeWishTextFallback(entry.text)))
               /\ UNCHANGED inflight
          ELSE /\ CanSuspend
               /\ inflight' = Put(inflight, n, [route |-> "wish-text", pc |-> "fetch",
                                                input |-> in, entry |-> entry])
               /\ UNCHANGED last
       /\ UNCHANGED <<now, wishTextStore, timers, env, supabase, browsers, input, output>>

\* the end of analyzeWishText in the handler of request r, result being what
\* WishTextAfterFetch gives
WishTextEnds(r, result, framework) ==
    LET f == inflight[r]
    IN /\ last' = IF result.threw
                  THEN Unhandled(r, "wish-text", f.input, framework)
                  ELSE Responded(r, "wish-text", f.input, 200, WishTextBody(f.entry, result.value))
       /\ inflight' = Delete(inflight, r)

\* fetch() of analyzeWishText settles: it rejects, or a response arrives
\* whose status is or is not a success
WishTextFetchSettles(r, outcome, framework) ==
    /\ r \in DOMAIN inflight
    /\ inflight[r].route = "wish-text"
    /\ inflight[r].pc = "fetch"
    /\ IF outcome = "ok"
       THEN /\ inflight' = [inflight EXCEPT ![r].pc = "json"]
            /\ UNCHANGED last
       ELSE WishTextEnds(r, WishTextAfterFetch(inflight[r].entry.text, [kind |-> outcome]),
                         framework)
    /\ UNCHANGED <<now, wishTextStore, timers, env, supabase, browsers, nreq, input, output>>

\* res.json() of analyzeWishText settles and the rest of the function runs
WishTextBodyRead(r, reply, framework) ==
    /\ r \in DOMAIN inflight
    /\ inflight[r].route = "wish-text"
    /\ inflight[r].pc = "json"
    /\ WishTextEnds(r, WishTextAfterFetch(inflight[r].entry.text, reply), framework)
    /\ UNCHANGED <<now, wishTextStore, timers, env, supabase, browsers, nreq, input, output>>

\* the frame of analyzeImage calling the provider at position i of
\* VisionProviders: the call is logged and in flight
ImageCall(f, i) ==
    [f EXCEPT !.pc = "fetch", !.provider = i,
              !.calls = Append(f.calls, [provider |-> VisionProviders[i], state |-> "pending"])]

\* the log of calls with the call in flight marked as ended in state st
CallEnded(calls, st) == [calls EXCEPT ![Len(calls)].state = st]

\* the handler of POST /analyze-image once analyzeImage has returned
\* extracted in frame f of request r: it awaits the upload when the storage
\* client exists and answers otherwise
ImageAnalyzed(r, f, extracted) ==
    IF supabase
    THEN /\ inflight' = Put(inflight, r, [f EXCEPT !.pc = "upload", !.extracted = extracted])
         /\ UNCHANGED last
    ELSE /\ last' = [calls |-> f.calls]
                        @@ Responded(r, "analyze-image", f.input, 200,
                                     extracted @@ [image |-> Null])
         /\ inflight' = Delete(inflight, r)

\* analyzeImage after the provider block at position f.provider fell
\* through, or from its start when f.provider = 0: the next configured
\* provider is called; with none left it returns the unknown record
ImageAdvance(r, f) ==
    LET i == NextProvider(env, f.provider)
    IN IF i <= Len(VisionProviders)
       THEN /\ inflight' = Put(inflight, r, ImageCall(f, i))
            /\ UNCHANGED last
       ELSE ImageAnalyzed(r, f, UnknownRecord)

\* an error left analyzeImage in frame f of request r: the catch block of
\* the handler answers
ImageThrew(r, f) ==
    /\ last' = [calls |-> f.calls]
                  @@ RespondedAfterThrow(r, "analyze-image", f.input, 502, UnknownRecord)
    /\ inflight' = Delete(inflight, r)

\* the provider block in flight in frame f of request r ends as got says
ImageAttemptEnds(r, f, got) ==
    IF got.threw THEN ImageThrew(r, [f EXCEPT !.calls = CallEnded(@, "failed")])
    ELSE IF got.returned
    THEN ImageAnalyzed(r, [f EXCEPT !.calls = CallEnded(@, "returned")], got.value)
    ELSE ImageAdvance(r, [f EXCEPT !.calls = CallEnded(@, "failed")])

\* the handler of request r from the check of imageBase64 on
ImageChecked(r, f, imageBase64) ==
    IF ~Truthy(imageBase64) \/ TypeOf(imageBase64) # "string"
    THEN /\ last' = Responded(r, "analyze-image", f.input, 400,
                              UnknownRecord @@ [error |-> "Missing image"])
         /\ inflight' = Delete(inflight, r)
    ELSE ImageAdvance(r, f)

\* POST /analyze-image with the body given: the handler up to its first
\* await that suspends, or to its response
AnalyzeImageStart(body) ==
    LET n == nreq + 1
        f == [route |-> "analyze-image", pc |-> "start", input |-> body, provider |-> 0,
              calls |-> <<>>, extracted |-> Null]
    IN /\ nreq < MaxRequests
       /\ nreq' = n
       /\ CanSuspend
       /\ IF Truthy(body.imageUrl) /\ TypeOf(body.imageUrl) = "string"
          THEN /\ inflight' = Put(inflight, n, [f EXCEPT !.pc = "download"])
               /\ UNCHANGED last
          ELSE ImageChecked(n, f, body.image)
       /\ UNCHANGED <<now, wishTextStore, timers, env, supabase, browsers, input, output>>

\* fetch(body.imageUrl) and r.arrayBuffer() settle
ImageDownloaded(r, ok) ==
    /\ r \in DOMAIN inflight
    /\ inflight[r].route = "analyze-image"
    /\ inflight[r].pc = "download"
    /\ IF ok
       THEN ImageChecked(r, inflight[r], Str(W_Base64))
       ELSE /\ last' = Responded(r, "analyze-image", inflight[r].input, 400,
                                 UnknownRecord @@ [error |-> "Fetch failed"])
            /\ inflight' = Delete(inflight, r)
    /\ UNCHANGED <<now, wishTextStore, timers, env, supabase, browsers, nreq, input, output>>

\* fetch() of a provider block settles
ImageFetchSettles(r, outcome) ==
    /\ r \in DOMAIN inflight
    /\ inflight[r].route = "analyze-image"
    /\ inflight[r].pc = "fetch"
    /\ IF outcome = "ok"
       THEN /\ inflight' = [inflight EXCEPT ![r].pc = "json"]
            /\ UNCHANGED last
       ELSE ImageAttemptEnds(r, inflight[r], ImageAttempt([kind |-> outcome]))
    /\ UNCHANGED <<now, wishTextStore, timers, env, supabase, browsers, nreq, input, output>>

\* res.json() of a provider block settles and the rest of the block runs
ImageBodyRead(r, reply) ==
    /\ r \in DOMAIN inflight
    /\ inflight[r].route = "analyze-image"
    /\ inflight[r].pc = "json"
    /\ ImageAttemptEnds(r, inflight[r], ImageAttempt(reply))
    /\ UNCHANGED <<now, wishTextStore, timers, env, supabase, browsers, nreq, input, output>>

\* the upload to the storage bucket settles: with a public URL, with an
\* error, or by throwing; the handler answers
ImageUploaded(r, ok) ==
    LET f == inflight[r]
    IN /\ r \in DOMAIN inflight
       /\ f.route = "analyze-image"
       /\ f.pc = "upload"
       /\ last' = [calls |-> f.calls]
                      @@ Responded(r, "analyze-image", f.input, 200,
                                   f.extracted
                                       @@ [image |-> IF ok THEN Str(W_ImageUrl) ELSE Null])
       /\ inflight' = Delete(inflight, r)
       /\ UNCHANGED <<now, wishTextStore, timers, env, supabase, browsers, nreq, input, output>>

\* the payload of the catch block of GET /
PageFallback(targetUrl) ==
    UnknownRecord
        @@ [link |-> targetUrl, image |-> Null, imageBase64 |-> Null, fallback |-> TRUE,
            error |-> "e.message"]

\* GET /?url=: the handler up to its 400 response or to the await of
\* puppeteer.launch()
PageStart(targetUrl) ==
    LET n == nreq + 1
        in == [url |-> targetUrl]
    IN /\ nreq < MaxRequests
       /\ nreq' = n
       /\ IF ~Truthy(targetUrl) \/ TypeOf(targetUrl) # "string"
          THEN /\ last' = Responded(n, "page", in, 400, [error |-> "Missing url query parameter"])
               /\ UNCHANGED inflight
          ELSE IF ~MatchAt(targetUrl.s, 1, <<"h", "t", "t", "p", "s", ":", "/", "/">>)
          THEN /\ last' = Responded(n, "page", in, 400, [error |-> "Only https URLs allowed"])
               /\ UNCHANGED inflight
          ELSE /\ CanSuspend
               /\ inflight' = Put(inflight, n, [route |-> "page", pc |-> "launch", input |-> in,
                                                result |-> Null])
               /\ UNCHANGED last
       /\ UNCHANGED <<now, wishTextStore, timers, env, supabase, browsers, input, output>>

\* puppeteer.launch() settles: with a browser, or by throwing, which the
\* catch block answers (no browser to close)
PageLaunched(r, ok) ==
    LET f == inflight[r]
    IN /\ r \in DOMAIN inflight
       /\ f.route = "page"
       /\ f.pc = "launch"
       /\ IF ok
          THEN /\ browsers' = browsers + 1
               /\ inflight' = [inflight EXCEPT ![r].pc = "render"]
               /\ UNCHANGED last
          ELSE /\ last' = RespondedAfterThrow(r, "page", f.input, 502, PageFallback(f.input.url))
               /\ inflight' = Delete(inflight, r)
               /\ UNCHANGED browsers
       /\ UNCHANGED <<now, wishTextStore, timers, env, supabase, nreq, input, output>>

\* newPage, setUserAgent, goto, the settle delay and page.content() are
\* through: one of them threw (rendered = Null), or the page's HTML is
\* rendered and parse runs on it
PageRendered(r, rendered) ==
    /\ r \in DOMAIN inflight
    /\ inflight[r].route = "page"
    /\ inflight[r].pc = "render"
    /\ Bind(inflight[r].input, LAMBDA in :
       Bind(IF rendered = Null THEN [threw |-> TRUE] ELSE parse(rendered, in.url), LAMBDA result :
            IF result.threw
            THEN /\ last' = RespondedAfterThrow(r, "page", in, 502, PageFallback(in.url))
                 /\ inflight' = [inflight EXCEPT ![r].pc = "close"]
            ELSE IF Truthy(result.value.image)
            THEN /\ inflight' = [inflight EXCEPT ![r].pc = "image", ![r].result = result.value]
                 /\ UNCHANGED last
            ELSE /\ last' = Responded(r, "page", in, 200, result.value @@ [imageBase64 |-> Null])
                 /\ inflight' = [inflight EXCEPT ![r].pc = "close"]))
    /\ UNCHANGED <<now, wishTextStore, timers, env, supabase, browsers, nreq, input, output>>

\* page.goto(imgUrl) and the read of its body are through (a throw is caught
\* by the inner try): fetched says whether an image came back
PageImageFetched(r, fetched) ==
    LET f == inflight[r]
    IN /\ r \in DOMAIN inflight
       /\ f.route = "page"
       /\ f.pc = "image"
       /\ last' = Responded(r, "page", f.input, 200,
                            f.result @@ [imageBase64 |-> IF fetched THEN Str(W_Base64) ELSE Null])
       /\ inflight' = [inflight EXCEPT ![r].pc = "close"]
       /\ UNCHANGED <<now, wishTextStore, timers, env, supabase, browsers, nreq, input, output>>

\* finally { await browser.close() }
PageBrowserClosed(r) ==
    /\ r \in DOMAIN inflight
    /\ inflight[r].route = "page"
    /\ inflight[r].pc = "close"
    /\ browsers' = browsers - 1
    /\ inflight' = Delete(inflight, r)
    /\ UNCHANGED <<now, wishTextStore, timers, env, supabase, nreq, last, input, output>>

Requests == 1..MaxRequests

\* the text store: POST /store-wish-text, GET /wish-text, the removal
\* timers and the clock
NextStore ==
    \/ Tick
    \/ \E t \in timers : TimerFires(t)
    \/ \E text \in SubmitTexts, id \in Ids : StoreWishText(text, id)
    \/ \E id \in Ids, analyze \in BOOLEAN : WishTextGet(id, analyze)
    \/ \E r \in Requests, outcome \in {"reject", "notok", "ok"}, fw \in Frameworks :
            WishTextFetchSettles(r, outcome, fw)
    \/ \E r \in Requests, reply \in ServerReplies, fw \in Frameworks :
            WishTextBodyRead(r, reply, fw)

\* POST /analyze-image
NextImage ==
    \/ \E body \in ImageBodies : AnalyzeImageStart(body)
    \/ \E r \in Requests, ok \in BOOLEAN : ImageDownloaded(r, ok)
    \/ \E r \in Requests, outcome \in {"reject", "notok", "ok"} : ImageFetchSettles(r, outcome)
    \/ \E r \in Requests, reply \in ServerReplies : ImageBodyRead(r, reply)
    \/ \E r \in Requests, ok \in BOOLEAN : ImageUploaded(r, ok)

\* GET /
NextPage ==
    \/ \E url \in SubmitUrls : PageStart(url)
    \/ \E r \in Requests, ok \in BOOLEAN : PageLaunched(r, ok)
    \/ \E r \in Requests, rendered \in ServerPages \cup {Null} : PageRendered(r, rendered)
    \/ \E r \in Requests, fetched \in BOOLEAN : PageImageFetched(r, fetched)
    \/ \E r \in Requests : PageBrowserClosed(r)

\* the two routes that validate what they are sent before they act
NextInput ==
    \/ \E text \in SubmitTexts, id \in Ids : StoreWishText(text, id)
    \/ NextPage

Next == NextStore \/ NextImage \/ NextPage

Spec == ServerInit /\ [][Next]_vars

SpecStore == ServerInit /\ [][NextStore]_vars

SpecImage == ServerInit /\ [][NextImage]_vars

SpecPage == ServerInit /\ [][NextPage]_vars

SpecInput == ServerInit /\ [][NextInput]_vars

\* the texts of the submissions that are stored
StoredTexts == {Str(T_Plain), Str(T_Sneakers)}

\* the text store with valid submissions only
NextLookup ==
    \/ Tick
    \/ \E t \in timers : TimerFires(t)
    \/ \E text \in StoredTexts, id \in Ids : StoreWishText(text, id)
    \/ \E id \in Ids, analyze \in BOOLEAN : WishTextGet(id, analyze)
    \/ \E r \in Requests, outcome \in {"reject", "notok", "ok"}, fw \in Frameworks :
            WishTextFetchSettles(r, outcome, fw)
    \/ \E r \in Requests, reply \in ServerReplies, fw \in Frameworks :
            WishTextBodyRead(r, reply, fw)

\* the configurations the text store's routes can tell apart: the keys
\* analyzeWishText reads, the storage client left out
LookupInit ==
    /\ ServerInit
    /\ env \subseteq {"GROQ_API_KEY", "OPENROUTER_API_KEY"}
    /\ ~supabase

SpecLookup == LookupInit /\ [][NextLookup]_vars

----------------------------------------------------------------------------
(* Claims about the resolution functions.                                  *)

\* the failure cases of the primary inference path that claim C2 lists
WishTextFailureCase ==
    \/ ~WishTextHasKey(input.env)
    \/ input.reply.kind \in {"reject", "notok", "badbody", "nocontent", "nospan", "badjson"}

\* C2: in every failure case of the primary inference path (no API key,
\* fetch rejecting, a non-success response, an unparsable body, missing
\* content, no {...} span, a span that is not JSON) analyzeWishText raises
\* no error and returns analyzeWishTextFallback of the same text.
C2_FallbackOnEveryFailure ==
    (input.path = "wish" /\ output.done /\ WishTextFailureCase)
        => (~output.threw /\ output.value = analyzeWishTextFallback(input.text))

\* C7: the price of every record the three resolution paths produce is
\* absent or a number that is not negative, not NaN and less than 1e9.
C7_PriceInRange ==
    Resolved =>
        \/ output.value.price = Null
        \/ /\ output.value.price.t = "number"
           /\ output.value.price.n >= 0
           /\ output.value.price.n < PriceLimit

\* a source's price when it is usable: a number that is not NaN
UsablePrice(v) == IF TypeOf(v) = "number" /\ ~IsNaN(v) THEN v ELSE Null

\* the prices the four sources of a page yield, in the order of precedence
PriceSources(html) ==
    LET ogPrice == extractMeta(html, "ogPrice")
        jsonLd == extractJsonLd(html)
        off == FirstOffer(jsonLd)
    IN << IF Truthy(ogPrice) THEN UsablePrice(ParseFloatValue(ogPrice)) ELSE Null,
          IF Truthy(off)
          THEN UsablePrice(IF TypeOf(Get(off, "price")) = "number"
                           THEN Get(off, "price") ELSE ParseFloatValue(Get(off, "price")))
          ELSE Null,
          UsablePrice(extractFromJsonBlobs(html).price),
          UsablePrice(extractPriceFromHtml(html)) >>

\* the first item of seq that is not Null, Null when all are
FirstPresent(seq) ==
    LET i == FirstIndex(seq, LAMBDA v : v # Null)
    IN IF i = 0 THEN Null ELSE seq[i]

\* C8: the resolver's price is the price of the first source, in the order
\* open-graph price, JSON-LD offer price, script-blob price, heuristic price,
\* that yields a usable price, and is absent only when all four fail.
C8_PriceFallsThrough ==
    (input.path = "parse" /\ Resolved)
        => output.value.price = FirstPresent(PriceSources(input.html))

\* a source's name when it is usable as text: a string that is not empty
UsableName(v) == IF v.t = "string" /\ Truthy(v) THEN v ELSE Null

\* the names the four sources of a page yield, in the order of precedence
NameSources(html) ==
    << UsableName(extractMeta(html, "ogTitle")),
       UsableName(Get(extractJsonLd(html), "name")),
       UsableName(extractFromJsonBlobs(html).name),
       UsableName(extractTitle(html)) >>

\* C9: the resolver's name is the first text value in the order open-graph
\* title, JSON-LD name, script-blob name, document title, and is "N/A" only
\* when none of the four provides a text name.
C9_NameFallsThrough ==
    (input.path = "parse" /\ Resolved)
        => output.value.name = Or(FirstPresent(NameSources(input.html)), Str(W_NA))

\* the symbol of the closed set for a code or token of the normalization
\* table, Null for any other value
SymbolOf(c) ==
    CASE c \in {W_RUB, W_rub} -> Str(S_Rouble)
      [] c \in {W_BYN, W_Br} -> Str(S_Br)
      [] c = W_USD -> Str(S_Dollar)
      [] c = W_EUR -> Str(S_Euro)
      [] c = W_KZT -> Str(S_Tenge)
      [] OTHER -> Null

\* C10: the currency of a record is never a code of the normalization table
\* left as it was: a recognizable code comes out as its symbol.
C10_CurrencyNormalized ==
    (Resolved /\ output.value.currency # Null)
        => \/ SymbolOf(output.value.currency.s) = Null
           \/ output.value.currency = SymbolOf(output.value.currency.s)

\* C12: for a wish text of the intent word followed by tokens that hold a
\* number next to a currency token of the families rouble, Belarusian
\* rouble, dollar, euro, analyzeWishTextFallback returns that number as the
\* price, the symbol of the token's family as the currency and a name that
\* holds neither the intent word nor the price span; the text "хочу
\* кроссовки Nike 42 за 150 руб" gives 150, the rouble sign and size "42".
C12_FallbackPriceAndCurrency ==
    (input.path = "fallback" /\ output.done) =>
        /\ output.value.price = Num(input.price)
        /\ output.value.currency = Str(input.symbol)
        /\ ~TestCI(output.value.name.s, W_hochu)
        /\ ~Includes(output.value.name.s, input.span)
        /\ input.size # Null => output.value.size = input.size

\* C13: currency normalization is idempotent.  Each currency normalizer (the
\* curMap of analyzeWishText, the heuristic of extractCurrencyFromHtml)
\* returns a symbol of the closed set unchanged, and for every raw code
\* applying it to what it returned gives what it returned.
C13_NormalizeIdempotent ==
    (input.path = "currency" /\ output.done) =>
        /\ output.twice = output.once
        /\ input.code \in CurrencySymbols => output.once = Str(input.code)

\* C14: for every JSON-LD tree of objects, arrays and @graph wrappers the
\* product locator returns nothing or a node whose own @type is or contains
\* "Product", never a wrapper that holds one; a Product node one level
\* inside a @graph or array wrapper is found; a block that does not parse
\* is skipped and the scan goes on with the next block.
C14_LocatorReturnsProduct ==
    (input.path = "jsonld" /\ output.done) =>
        /\ output.product = Null \/ TypeIncludesProduct(output.product)
        /\ input.found => output.product = ShoeNode

----------------------------------------------------------------------------
(* Claims about the server.                                                *)

\* C1: a lookup of an id at a time later than its entry's expiry timestamp
\* answers 404, whether or not the removal timer has run; it never returns
\* the stored text.
C1_ExpiredNotFound ==
    [][\A id \in Ids, analyze \in BOOLEAN :
            (/\ id \in DOMAIN wishTextStore
             /\ now > wishTextStore[id].expires
             /\ WishTextGet(id, analyze))
                => (last'.n = nreq' /\ last'.status = 404)]_vars

\* the logs of the provider calls of the analyses under way and of the
\* analysis answered last
CallLogs ==
    {inflight[r].calls : r \in {q \in DOMAIN inflight : inflight[q].route = "analyze-image"}}
        \cup (IF last.n > 0 /\ "calls" \in DOMAIN last THEN {last.calls} ELSE {})

\* the position of provider p in the fixed order Groq, OpenRouter, Gemini
Priority(p) == CHOOSE i \in 1..3 : <<"Groq", "OpenRouter", "Gemini">>[i] = p

\* the key of the provider at position i of the fixed order is set
Configured(i) ==
    <<"GROQ_API_KEY", "OPENROUTER_API_KEY", "GEMINI_API_KEY">>[i] \in env

\* C3: analyzeImage calls the providers one after another in the order Groq,
\* OpenRouter, Gemini: a provider is called only if it is configured and
\* every configured provider before it has completed without yielding an
\* object; one call at most is in flight, each provider is called once at
\* most, and none is called after one returned an object.
C3_SequentialCascade ==
    \A calls \in CallLogs :
        \A k \in 1..Len(calls) :
            /\ Configured(Priority(calls[k].provider))
            /\ \A j \in 1..(k - 1) :
                    /\ calls[j].state = "failed"
                    /\ Priority(calls[j].provider) < Priority(calls[k].provider)
            /\ \A i \in 1..(Priority(calls[k].provider) - 1) :
                    Configured(i) => \E j \in 1..(k - 1) : Priority(calls[j].provider) = i

\* C3's case: the third provider is being called after the two before it,
\* both configured, were called in turn and failed
C3_Witness ==
    \E r \in DOMAIN inflight :
        /\ inflight[r].route = "analyze-image"
        /\ Len(inflight[r].calls) = 3
        /\ inflight[r].calls[3] = [provider |-> "Gemini", state |-> "pending"]

\* the configured providers, by position, whose reply holds a JSON object
ImageSuccesses ==
    {i \in 1..3 :
        /\ <<"GROQ_API_KEY", "OPENROUTER_API_KEY", "GEMINI_API_KEY">>[i] \in input.env
        /\ input.replies[<<"GROQ_API_KEY", "OPENROUTER_API_KEY", "GEMINI_API_KEY">>[i]].kind
                = "json"}

\* C4: for every configuration and every outcome of every provider
\* analyzeImage raises no error; a failing provider only passes the turn to
\* the next one, and with no provider configured or all of them failing the
\* result is {name: "N/A", price: null, currency: null, size: null}.
C4_ImageNeverThrows ==
    (input.path = "image" /\ output.done) =>
        /\ ~output.threw
        /\ IF ImageSuccesses = {}
           THEN output.value = [name |-> Str(<<"N", "/", "A">>), price |-> Null,
                                currency |-> Null, size |-> Null]
           ELSE output.value =
                    ImageRecord(input.replies[
                        <<"GROQ_API_KEY", "OPENROUTER_API_KEY", "GEMINI_API_KEY">>[
                            Min(ImageSuccesses)]].parsed)

\* C4's case: all three providers are configured and each fails in its own
\* way, the first by its request throwing
C4_Witness ==
    /\ input.path = "image"
    /\ output.done
    /\ input.env = {"GROQ_API_KEY", "OPENROUTER_API_KEY", "GEMINI_API_KEY"}
    /\ input.replies["GROQ_API_KEY"].kind = "reject"
    /\ input.replies["OPENROUTER_API_KEY"].kind = "badbody"
    /\ input.replies["GEMINI_API_KEY"].kind = "badjson"
    /\ output.value.name = Str(<<"N", "/", "A">>)

\* a payload with all attribute fields absent
AllAbsent(body) ==
    /\ {"name", "price", "currency", "size"} \subseteq DOMAIN body
    /\ body.name = Str(<<"N", "/", "A">>)
    /\ body.price = Null
    /\ body.currency = Null
    /\ body.size = Null

\* C5: a request in whose handler the page-render or inference call stack
\* threw still ends with exactly one response, whose payload has all
\* attribute fields absent and carries a diagnostic flag.
C5_ThrowStillAnswers ==
    (last.n > 0 /\ last.threw) =>
        /\ last.responses = 1
        /\ AllAbsent(last.body)
        /\ "fallback" \in DOMAIN last.body

\* a text that is missing, not a string, empty or longer than 2000 characters
RejectedText(text) ==
    \/ text = Undefined
    \/ TypeOf(text) # "string"
    \/ Length(text) = 0
    \/ Length(text) > 2000

\* a url that is missing, not a string or does not start with "https://"
RejectedUrl(url) ==
    \/ url = Undefined
    \/ TypeOf(url) # "string"
    \/ ~MatchAt(url.s, 1, <<"h", "t", "t", "p", "s", ":", "/", "/">>)

\* C6: a submit-text request with a rejected text is answered 400 and leaves
\* the store and the timers as they were; a page-parse request with a
\* rejected url is answered 400 and launches no browser.
C6_InvalidInputRejected ==
    [][/\ \A text \in SubmitTexts, id \in Ids :
            (RejectedText(text) /\ StoreWishText(text, id))
                => /\ last'.n = nreq'
                   /\ last'.status = 400
                   /\ UNCHANGED <<wishTextStore, timers>>
       /\ \A url \in SubmitUrls :
            (RejectedUrl(url) /\ PageStart(url))
                => /\ last'.n = nreq'
                   /\ last'.status = 400
                   /\ UNCHANGED <<browsers, inflight>>]_vars

\* C6's case: with a text in the store, a text of 2001 characters was
\* submitted and answered 400
C6_Witness ==
    /\ last.n > 0
    /\ last.route = "store-wish-text"
    /\ last.input.text.t = "string"
    /\ Length(last.input.text) = 2001
    /\ last.status = 400
    /\ DOMAIN wishTextStore # {}

\* a step of a lookup that had suspended on the provider call
LookupResumes(r) ==
    \/ \E outcome \in {"reject", "notok", "ok"}, fw \in Frameworks :
            WishTextFetchSettles(r, outcome, fw)
    \/ \E reply \in ServerReplies, fw \in Frameworks : WishTextBodyRead(r, reply, fw)

C15_EntryLivesUntilExpiry ==
    [][\A id \in DOMAIN wishTextStore :
            now < wishTextStore[id].expires => id \in DOMAIN wishTextStore']_vars

\* the entry the store holds under id, Null when it holds none
EntryOf(store, id) == IF id \in DOMAIN store THEN store[id] ELSE Null

\* a step of a submission, a lookup or a removal timer that works on id
StepOn(id) ==
    \/ \E text \in SubmitTexts : StoreWishText(text, id)
    \/ \E analyze \in BOOLEAN : WishTextGet(id, analyze)
    \/ \E t \in timers : t.id = id /\ TimerFires(t)

\* the members of the record analyzeWishText returns
AnalysisKeys == {"name", "price", "currency", "size"}

\* C16: in every interleaving of submissions, lookups and timer removals a
\* successful lookup of an id answers with the text stored under that id: a
\* submission stores its text under its id, a step that works on one id
\* leaves the entry of every other id as it was, a lookup answered at once
\* carries the text of the entry, and an analyze request that read the
\* entry and suspended on the provider call answers 200 with that text and
\* the analysis although the removal timer took the entry out of the store
\* during the call.
C16_LookupAnswersStoredText ==
    [][/\ \A id \in Ids :
            /\ StepOn(id) =>
                    \A other \in Ids \ {id} :
                        EntryOf(wishTextStore', other) = EntryOf(wishTextStore, other)
            /\ \A text \in SubmitTexts :
                    (StoreWishText(text, id) /\ last'.status = 200) =>
                        wishTextStore'[id].text = text
            /\ \A analyze \in BOOLEAN :
                    (WishTextGet(id, analyze) /\ last'.n = nreq' /\ last'.status = 200) =>
                        last'.body.text = EntryOf(wishTextStore, id).text
        /\ \A r \in Requests :
            (/\ LookupResumes(r)
             /\ r \notin DOMAIN inflight'
             /\ inflight[r].input.id \notin DOMAIN wishTextStore) =>
                /\ last'.n = r
                /\ last'.status = 200
                /\ last'.body.text = inflight[r].entry.text
                /\ AnalysisKeys \subseteq DOMAIN last'.body]_vars

============================================================================
